---- MODULE Spec2Model ----
(***************************************************************************)
(* Model of smart-review's review orchestration: BaseLLMClient.review_pr   *)
(* (src/src/smart_review/ai/base.py) driving the GitHubClient gateway      *)
(* (src/src/smart_review/gitops/github.py).                                *)
(*                                                                         *)
(* Text is modelled as a sequence of string tokens, so that formatting and *)
(* joining are real computations: "a" + "b" is <<"a">> \o <<"b">>.         *)
(***************************************************************************)
EXTENDS Integers, Sequences, FiniteSets, TLC

\* ------------------------------------------------------------------ bounds
\* largest recursion_limit a review is started with
MaxR == 2
\* cap on the number of review_pr invocations of one review (the code has none)
MaxRounds == 4
\* longest additional_files request
MaxPaths == 2
\* cap on the diff downloads of one GitHubClient (a failed download is not cached)
MaxDownloads == 2

\* ------------------------------------------------------------ input domains
NL == "\n"

RepoPaths == {"a.py", "b.py"}
RequestPaths == RepoPaths \cup {"missing.py"}
ContentOf == [p \in RepoPaths |-> IF p = "a.py" THEN "print(1)" ELSE "x = 2"]

\* the ContentFile objects of a listing: path -> ContentFile(path, content)
Listings ==
  { [p \in S |-> [path |-> p, content |-> ContentOf[p]]] : S \in SUBSET RepoPaths }

\* (diff_text, context, project_description) of a review
ReviewInputs ==
  { << <<>>, <<>>, <<>> >>,
    << <<"+1 line added">>, <<>>, <<"demo repo">> >>,
    << <<"+1 line added">>, <<"## a.py", "print(0)">>, <<>> >> }
Messages == {"LGTM", "fix it"}

PathLists == UNION { [1..n -> RequestPaths] : n \in 0..MaxPaths }

\* "reviews" values: lists of {file, comments: [{line, message}]}
LineA == [line |-> 1, message |-> "use logging"]
LineB == [line |-> 7, message |-> "rename"]
ReviewLists ==
  { <<>>,
    << [file |-> "a.py", comments |-> <<LineA>>] >>,
    << [file |-> "a.py", comments |-> <<LineA, LineB>>],
       [file |-> "b.py", comments |-> <<LineB>>] >>,
    << [file |-> "b.py", comments |-> <<>>],
       [file |-> "a.py", comments |-> <<LineB>>] >> }

\* ResponseTypeEnum (base.py 17-22) and a value outside it
POSITIVE_REVIEW == "positive_review"
ADDITIONAL_FILES == "additional_files"
NEGATIVE_REVIEW == "negative_review"

EmptyMapping == [k \in {} |-> k]
Opt(present, k, v) == IF present THEN (k :> v) ELSE EmptyMapping

\* the JSON objects the LLM may send back: with or without a review_type,
\* each with any subset of the fields its type asks for
OptMessage == { Opt(hm, "message", m) : hm \in BOOLEAN, m \in Messages }
OptReviews == { Opt(hr, "reviews", r) : hr \in BOOLEAN, r \in ReviewLists }
OptPaths == { Opt(ha, "additional_files", a) : ha \in BOOLEAN, a \in PathLists }
Replies ==
  { ("review_type" :> POSITIVE_REVIEW) @@ m : m \in OptMessage }
    \cup { ("review_type" :> NEGATIVE_REVIEW) @@ m @@ r : m \in OptMessage, r \in OptReviews }
    \cup { ("review_type" :> ADDITIONAL_FILES) @@ m @@ a : m \in OptMessage, a \in OptPaths }
    \cup { ("review_type" :> "something_else") @@ m : m \in OptMessage }
    \cup OptMessage

\* dict.get(key): None when the key is absent
Get(d, k) == IF k \in DOMAIN d THEN d[k] ELSE "None"

\* --------------------------------------------------------- prompt building
\* A template is what str.format sees: literal text and replacement fields.
Lit(t) == [kind |-> "literal", text |-> t]
Field(n) == [kind |-> "field", name |-> n]

\* base.py 65-126.  The three JSON examples are written with single braces,
\* so str.format reads each "{\n    "message": ...}" as a replacement field
\* whose name is the text before the first colon.
PROMPT_TEMPLATE ==
  << Lit("Review the following pull request diffs and provide feedback."),
     Field("diff"),
     Lit("# Context:"),
     Field("context"),
     Lit("# Code Quality Checklist: ... - Project Description: "),
     Field("project_description"),
     Lit("- Relevant Files: "),
     Field("relevant_files"),
     Lit("# Response Format ... 1. Positive Review:"),
     Field("\n    \"message\""),
     Lit("2. Negative Review:"),
     Field("\n    \"message\""),
     Lit("3. Additional Files:"),
     Field("\n    \"message\""),
     Lit("RECURSIONS REMAINING: "),
     Field("recursion_limit"),
     Lit("When the recursion's remaining value is 0, the review will no longer request additional files") >>

\* a caller-supplied prompt_template (base.py 134) with its braces doubled
EscapedTemplate ==
  << Lit("Review the following pull request diffs and provide feedback."),
     Field("diff"),
     Lit("# Context:"),
     Field("context"),
     Lit("- Project Description: "),
     Field("project_description"),
     Lit("- Relevant Files: "),
     Field("relevant_files"),
     Lit("# Response Format {...}"),
     Lit("RECURSIONS REMAINING: "),
     Field("recursion_limit") >>

Templates == {PROMPT_TEMPLATE, EscapedTemplate}

\* variant of FormatArgs that shows the limit of the round after this one
FormatArgs_next_limit(diff, ctx, descr, rel, limit) ==
  [ diff |-> diff, context |-> ctx, project_description |-> descr,
    relevant_files |-> rel, recursion_limit |-> <<ToString(limit - 1)>> ]

\* the keyword arguments of the format call, each rendered with str()
FormatArgs(diff, ctx, descr, rel, limit) ==
  [ diff |-> diff, context |-> ctx, project_description |-> descr,
    relevant_files |-> rel, recursion_limit |-> <<ToString(limit)>> ]

\* str.format: text so far, or KeyError at the first field without an argument
RECURSIVE FormatFrom(_, _, _, _)
FormatFrom(template, kwargs, i, acc) ==
  IF i > Len(template) THEN [ok |-> TRUE, text |-> acc]
  ELSE LET seg == template[i] IN
       IF seg.kind = "literal"
       THEN FormatFrom(template, kwargs, i + 1, Append(acc, seg.text))
       ELSE IF seg.name \in DOMAIN kwargs
            THEN FormatFrom(template, kwargs, i + 1, acc \o kwargs[seg.name])
            ELSE [ok |-> FALSE, text |-> <<seg.name>>]

Format(template, kwargs) == FormatFrom(template, kwargs, 1, <<>>)

\* ------------------------------------------------------ additional files
\* variant of FoundFiles that collects the files in reverse request order
RECURSIVE FoundFiles_reversed(_, _)
FoundFiles_reversed(paths, listing) ==
  IF paths = <<>> THEN <<>>
  ELSE LET rest == FoundFiles_reversed(Tail(paths), listing) IN
       IF Head(paths) \notin DOMAIN listing THEN rest
       ELSE rest \o <<listing[Head(paths)]>>

\* base.py 185-190: the ContentFile of every requested path in the listing
RECURSIVE FoundFiles(_, _)
FoundFiles(paths, listing) ==
  IF paths = <<>> THEN <<>>
  ELSE LET rest == FoundFiles(Tail(paths), listing) IN
       IF Head(paths) \notin DOMAIN listing THEN rest
       ELSE <<listing[Head(paths)]>> \o rest

\* a dict as its items in insertion order; d[k] = v keeps the position of k
DictSet(items, k, v) ==
  IF \E i \in 1..Len(items) : items[i][1] = k
  THEN [i \in 1..Len(items) |-> IF items[i][1] = k THEN <<k, v>> ELSE items[i]]
  ELSE Append(items, <<k, v>>)

\* base.py 192: {f.path: f.content for f in files}
RECURSIVE FilesDictFrom(_, _)
FilesDictFrom(files, items) ==
  IF files = <<>> THEN items
  ELSE FilesDictFrom(Tail(files), DictSet(items, Head(files).path, Head(files).content))

FilesDict(files) == FilesDictFrom(files, <<>>)

\* base.py 205-208: "\n".join(f"{path}\n{content}" for path, content in items)
RECURSIVE files_to_string(_)
files_to_string(items) ==
  IF items = <<>> THEN <<>>
  ELSE LET block == <<items[1][1], NL, items[1][2]>> IN
       IF Len(items) = 1 THEN block
       ELSE block \o <<NL>> \o files_to_string(Tail(items))

\* base.py 183-192: the relevant_files text of the next round
AdditionalFilesText(paths, listing) ==
  files_to_string(FilesDict(FoundFiles(paths, listing)))

\* variant of NextRelevantFiles that appends to the previous text
NextRelevantFiles_append(previous, additional_files) ==
  IF previous = <<>> THEN additional_files
  ELSE previous \o <<NL>> \o additional_files

\* base.py 198: relevant_files=additional_files
NextRelevantFiles(previous, additional_files) == additional_files

\* variant of NextRecursionLimit that passes the limit on unchanged
NextRecursionLimit_unchanged(limit) == limit

\* base.py 199: recursion_limit=recursion_limit - 1
NextRecursionLimit(limit) == limit - 1

\* ------------------------------------------------------- GitHubClient
SmartReviewHeader == "## Smart Review\n\n"

\* github.py 156-159: pr_commits[-1]
latest_commit(commits) == commits[Len(commits)]

\* variant of create_positive_review that posts a plain comment review
create_positive_review_comment_event(message) ==
  << [call |-> "create_review", body |-> <<SmartReviewHeader, message>>,
      event |-> "COMMENT"] >>

\* github.py 193-200: the create_review call made on the pull request
create_positive_review(message) ==
  << [call |-> "create_review", body |-> <<SmartReviewHeader, message>>,
      event |-> "APPROVE"] >>

\* variant of create_negative_review_comment that comments on the first commit
create_negative_review_comment_first_commit(line_review, file_path, commits) ==
  [call |-> "create_review_comment",
   body |-> <<SmartReviewHeader, line_review.message>>,
   path |-> file_path, line |-> line_review.line,
   commit |-> commits[1], as_suggestion |-> FALSE]

\* github.py 202-218: the create_review_comment call made on the pull request
create_negative_review_comment(line_review, file_path, commits) ==
  [call |-> "create_review_comment",
   body |-> <<SmartReviewHeader, line_review.message>>,
   path |-> file_path, line |-> line_review.line,
   commit |-> latest_commit(commits), as_suggestion |-> FALSE]

\* github.py 227-229: the inner loop over file_review["comments"]
RECURSIVE FileComments(_, _, _)
FileComments(comments, file_path, commits) ==
  IF comments = <<>> THEN <<>>
  ELSE <<create_negative_review_comment(Head(comments), file_path, commits)>>
         \o FileComments(Tail(comments), file_path, commits)

\* github.py 225-229: the outer loop over negative_review.reviews
RECURSIVE ReviewComments(_, _)
ReviewComments(reviews, commits) ==
  IF reviews = <<>> THEN <<>>
  ELSE FileComments(Head(reviews).comments, Head(reviews).file, commits)
         \o ReviewComments(Tail(reviews), commits)

\* variant of create_negative_review that creates the summary review first
create_negative_review_summary_first(negative_review, commits) ==
  << [call |-> "create_review",
      body |-> <<SmartReviewHeader, negative_review.review_message>>,
      event |-> "REQUEST_CHANGES"] >>
    \o ReviewComments(negative_review.reviews, commits)

\* github.py 220-233: every line comment, then the summary review
create_negative_review(negative_review, commits) ==
  ReviewComments(negative_review.reviews, commits)
    \o << [call |-> "create_review",
           body |-> <<SmartReviewHeader, negative_review.review_message>>,
           event |-> "REQUEST_CHANGES"] >>

\* github.py 145-148: the commit lists get_commits may give for a pull request
PrCommitLists == { <<"c1">>, <<"c1", "c2">> }

\* ai/objects.py 54-59: the NegativeReview objects a caller may pass
NegativeReviews ==
  { [review_message |-> m, reviews |-> r] : m \in Messages, r \in ReviewLists }

\* ------------------------------------------ GitHubClient lazy properties
\* the remote calls a GitHubClient makes
RemoteCalls == {"get_repo", "get_pull", "get_branch", "compare", "download",
                "get_files", "get_contents", "get_commits", "file_contents"}

\* github.py 109: the status of a successful download
HTTP_OK == 200
DownloadStatuses == {HTTP_OK, 404}

\* github.py 108, 114: response.text of a download
ResponseTexts == {<<>>, <<"diff --git a/a.py b/a.py">>}

\* no diff_text has been read yet
NoRead == [result |-> "none", value |-> <<>>, status |-> 0, text |-> <<>>]

\* github.py 38-51: a new client has none of its lazy attributes
\* diff is _diff_text once "diff_text" is in cached; read is how the last
\* read of diff_text ended (status 0: no download was made)
NewClient ==
  [cached |-> {}, fetches |-> [c \in RemoteCalls |-> 0], failed_downloads |-> 0,
   diff |-> <<>>, read |-> NoRead]

Fetch(g, remote_call) == [g EXCEPT !.fetches[remote_call] = @ + 1]
Cache(g, property) == [g EXCEPT !.cached = @ \cup {property}]

\* github.py 53-55: _get_repository
GetRepository(g) == Fetch(g, "get_repo")

\* github.py 57-61: repository
Repository(g) ==
  IF "repository" \in g.cached THEN g ELSE Cache(GetRepository(g), "repository")

\* github.py 63-65: _get_pull_request asks _get_repository, not the property
GetPullRequest(g) == Fetch(GetRepository(g), "get_pull")

\* github.py 67-71: pull_request
PullRequest(g) ==
  IF "pull_request" \in g.cached THEN g ELSE Cache(GetPullRequest(g), "pull_request")

\* github.py 73-82: destination_branch
DestinationBranch(g) ==
  IF "destination_branch" \in g.cached THEN g
  ELSE Cache(Fetch(Repository(PullRequest(g)), "get_branch"), "destination_branch")

\* github.py 84-93: source_branch
SourceBranch(g) ==
  IF "source_branch" \in g.cached THEN g
  ELSE Cache(Fetch(Repository(PullRequest(g)), "get_branch"), "source_branch")

\* github.py 95-108: _get_diff_text up to the response of the download
DownloadDiff(g) ==
  Fetch(Fetch(Repository(DestinationBranch(SourceBranch(g))), "compare"), "download")

\* variant of DiffText that keeps the text of a failed download as the diff
DiffText_cache_on_failure(g, status, text) ==
  IF "diff_text" \in g.cached
  THEN [g EXCEPT !.read = [result |-> "str", value |-> g.diff,
                           status |-> 0, text |-> <<>>]]
  ELSE IF status # HTTP_OK
       THEN [Cache(DownloadDiff(g), "diff_text") EXCEPT
               !.failed_downloads = @ + 1,
               !.diff = text,
               !.read = [result |-> "SmartReviewGithubException", value |-> <<>>,
                         status |-> status, text |-> text]]
       ELSE [Cache(DownloadDiff(g), "diff_text") EXCEPT
               !.diff = text,
               !.read = [result |-> "str", value |-> text,
                         status |-> status, text |-> text]]

\* github.py 109-119: a status other than 200 raises and nothing is cached;
\* with 200 the text of the response is cached and returned
DiffText(g, status, text) ==
  IF "diff_text" \in g.cached
  THEN [g EXCEPT !.read = [result |-> "str", value |-> g.diff,
                           status |-> 0, text |-> <<>>]]
  ELSE IF status # HTTP_OK
       THEN [DownloadDiff(g) EXCEPT
               !.failed_downloads = @ + 1,
               !.read = [result |-> "SmartReviewGithubException", value |-> <<>>,
                         status |-> status, text |-> text]]
       ELSE [Cache(DownloadDiff(g), "diff_text") EXCEPT
               !.diff = text,
               !.read = [result |-> "str", value |-> text,
                         status |-> status, text |-> text]]

\* github.py 121-130: pr_files
PrFiles(g) ==
  IF "pr_files" \in g.cached THEN g
  ELSE Cache(Fetch(PullRequest(g), "get_files"), "pr_files")

\* github.py 132-143: repository_files
RepositoryFiles(g) ==
  IF "repository_files" \in g.cached THEN g
  ELSE Cache(Fetch(Repository(g), "get_contents"), "repository_files")

\* github.py 145-154: pr_commits
PrCommits(g) ==
  IF "pr_commits" \in g.cached THEN g
  ELSE Cache(Fetch(PullRequest(g), "get_commits"), "pr_commits")

\* github.py 161-191: context reads the content of the file of the PR
Context(g) ==
  IF "context" \in g.cached THEN g
  ELSE Cache(Fetch(PrFiles(g), "file_contents"), "context")

\* the properties whose access takes no input
Properties ==
  {"repository", "pull_request", "destination_branch", "source_branch",
   "pr_files", "repository_files", "pr_commits", "context"}

Access(g, property) ==
  IF property = "repository" THEN Repository(g)
  ELSE IF property = "pull_request" THEN PullRequest(g)
  ELSE IF property = "destination_branch" THEN DestinationBranch(g)
  ELSE IF property = "source_branch" THEN SourceBranch(g)
  ELSE IF property = "pr_files" THEN PrFiles(g)
  ELSE IF property = "repository_files" THEN RepositoryFiles(g)
  ELSE IF property = "pr_commits" THEN PrCommits(g)
  ELSE Context(g)

\* github.py 220: the parameters of create_negative_review after self
CreateNegativeReviewParams == <<"negative_review">>

\* base.py 176-178: the positional arguments review_pr passes to it
CreateNegativeReviewArgs(reply) == <<reply["message"], reply["reviews"]>>

\* ------------------------------------------------------------ dispatch
\* variant of Branch whose final else is the positive branch
Branch_default_positive(reply) ==
  LET review_type == Get(reply, "review_type") IN
  IF review_type = NEGATIVE_REVIEW THEN "negative"
  ELSE IF review_type = ADDITIONAL_FILES THEN "additional"
  ELSE "positive"

\* base.py 164-165, 171, 180, 201: the branch review_pr takes for a reply
Branch(reply) ==
  LET review_type == Get(reply, "review_type") IN
  IF review_type = POSITIVE_REVIEW THEN "positive"
  ELSE IF review_type = NEGATIVE_REVIEW THEN "negative"
  ELSE IF review_type = ADDITIONAL_FILES THEN "additional"
  ELSE "unexpected"

\* variant of Asserts without the message assertion of the additional_files branch
Asserts_skip_message(reply, fields) ==
  IF "additional_files" \in fields
  THEN "additional_files" \in DOMAIN reply
  ELSE \A f \in fields : f \in DOMAIN reply

\* base.py 166, 172-173, 181-182: assert "<field>" in response, for each field
Asserts(reply, fields) == \A f \in fields : f \in DOMAIN reply

\* ------------------------------------------------------- OpenAILLMClient
\* http.HTTPStatus values used by the exceptions
BAD_REQUEST == 400
REQUEST_TIMEOUT == 408
INTERNAL_SERVER_ERROR == 500

\* openai.py 60-83: what can go wrong inside _talk_to_llm
LLMErrors == {"APITimeoutError", "APIError", "JSONDecodeError", "Exception"}

\* openai.py 60-83: the exception_status of the SmartReviewLLMException raised
LLMExceptionStatus(error) ==
  IF error = "APITimeoutError" THEN REQUEST_TIMEOUT ELSE INTERNAL_SERVER_ERROR

\* openai.py 39-51: what chat.completions.create may raise, and the other
\* exceptions the try block may raise
CreateErrors == {"APITimeoutError", "APIConnectionError", "RateLimitError",
                 "APIError", "RuntimeError"}
Exceptions == CreateErrors \cup {"IndexError", "JSONDecodeError"}

\* the base class of each exception class, up to Exception
ExceptionBase ==
  [e \in Exceptions \cup {"APIStatusError", "OpenAIError", "LookupError", "ValueError"} |->
     IF e = "APITimeoutError" THEN "APIConnectionError"
     ELSE IF e \in {"APIConnectionError", "APIStatusError"} THEN "APIError"
     ELSE IF e = "RateLimitError" THEN "APIStatusError"
     ELSE IF e = "APIError" THEN "OpenAIError"
     ELSE IF e = "IndexError" THEN "LookupError"
     ELSE IF e = "JSONDecodeError" THEN "ValueError"
     ELSE "Exception"]

RECURSIVE IsInstance(_, _)
IsInstance(e, class) ==
  IF e = class THEN TRUE
  ELSE IF e = "Exception" THEN FALSE
  ELSE IsInstance(ExceptionBase[e], class)

\* variant of Handlers that tries APIError before APITimeoutError
Handlers_api_error_first ==
  << [catch |-> "APIError", status |-> INTERNAL_SERVER_ERROR],
     [catch |-> "APITimeoutError", status |-> REQUEST_TIMEOUT],
     [catch |-> "JSONDecodeError", status |-> INTERNAL_SERVER_ERROR],
     [catch |-> "Exception", status |-> INTERNAL_SERVER_ERROR] >>

\* openai.py 60-83: the except clauses of _talk_to_llm, in order
Handlers ==
  << [catch |-> "APITimeoutError", status |-> REQUEST_TIMEOUT],
     [catch |-> "APIError", status |-> INTERNAL_SERVER_ERROR],
     [catch |-> "JSONDecodeError", status |-> INTERNAL_SERVER_ERROR],
     [catch |-> "Exception", status |-> INTERNAL_SERVER_ERROR] >>

\* openai.py 60-83: the first clause that matches raises SmartReviewLLMException
Handle(e) ==
  LET matching == { i \in DOMAIN Handlers : IsInstance(e, Handlers[i].catch) } IN
  IF matching = {} THEN [raises |-> e, status |-> 0]
  ELSE [raises |-> "SmartReviewLLMException",
        status |-> Handlers[CHOOSE i \in matching : \A j \in matching : i <= j].status]

\* openai.py 50, 54-55: message.content is None or a string; with
\* response_format json_object the string is empty, the text of a JSON
\* object, or such a text cut short
NoneContent ==
  [type |-> "NoneType", empty |-> TRUE, closed |-> FALSE, members |-> EmptyMapping]
EmptyContent ==
  [type |-> "str", empty |-> TRUE, closed |-> FALSE, members |-> EmptyMapping]
Contents ==
  {NoneContent, EmptyContent}
    \cup { [type |-> "str", empty |-> FALSE, closed |-> c, members |-> r] :
             c \in BOOLEAN, r \in Replies }

\* openai.py 39-55: what the API does with one request
Completions ==
  { [raises |-> e, choices |-> <<>>] : e \in CreateErrors }
    \cup { [raises |-> "none", choices |-> ch] :
             ch \in {<<>>} \cup { <<c>> : c \in Contents } }

\* openai.py 56: not response_jsn_string
Falsy(content) == content.type = "NoneType" \/ content.empty

\* openai.py 58: json.loads
json_loads(content) ==
  IF content.closed THEN [ok |-> TRUE, value |-> content.members]
  ELSE [ok |-> FALSE, value |-> EmptyMapping]

\* variant of AfterLLMException that asks the LLM again
AfterLLMException_retry == "llm"

\* base.py 160: review_pr has no handler around _talk_to_llm, the exception leaves it
AfterLLMException == "done"

\* ------------------------------------------------- configuration, Controller
\* controller.py 108: default of Options.max_recursion
OptionsDefaultMaxRecursion == 5
\* app.py 40: default of --max-recursion
CliDefaultMaxRecursion == 3
\* controller.py 161-162: the value perform_review puts in place of a falsy one
FallbackRecursionLimit == 5

\* an optional integer is the empty set or a singleton
Value(opt) == CHOOSE v \in opt : TRUE

\* app.py 22-24: one of --openai-token, --vertex-credentials, and only one
ParseLLMTokens(key, creds) ==
  IF (key = "None") = (creds = "None") THEN "SystemExit" ELSE "parsed"

\* app.py 40: args.max_recursion
ParseMaxRecursion(given) ==
  IF given = {} THEN {CliDefaultMaxRecursion} ELSE given

\* variant of AuthenticationPostInit that lets both credentials through
AuthenticationPostInit_both(key, creds) ==
  IF key = "None" /\ creds = "None"
  THEN [raised |-> "SmartReviewSystemException", llm_type |-> "unset"]
  ELSE IF key # "None" THEN [raised |-> "none", llm_type |-> "OPENAI"]
  ELSE [raised |-> "none", llm_type |-> "GOOGLE"]

\* controller.py 42-54: AuthenticationInformation.__attrs_post_init__
AuthenticationPostInit(key, creds) ==
  IF key = "None" /\ creds = "None"
  THEN [raised |-> "SmartReviewSystemException", llm_type |-> "unset"]
  ELSE IF key # "None" /\ creds # "None"
  THEN [raised |-> "SmartReviewSystemException", llm_type |-> "unset"]
  ELSE IF key # "None" THEN [raised |-> "none", llm_type |-> "OPENAI"]
  ELSE [raised |-> "none", llm_type |-> "GOOGLE"]

\* controller.py 104-109: Options.max_recursion, default and validators.ge(0)
OptionsMaxRecursion(given) ==
  LET value == IF given = {} THEN OptionsDefaultMaxRecursion ELSE Value(given) IN
  IF value >= 0 THEN [raised |-> "none", max_recursion |-> {value}]
  ELSE [raised |-> "ValueError", max_recursion |-> {}]

\* controller.py 112-177: what class Controller defines
ControllerMethods == {"__attrs_post_init__", "perform_review"}

\* controller.py 122-140: Controller.__attrs_post_init__ picks the LLM client
ControllerPostInit(type) ==
  IF type = "OPENAI" THEN "none" ELSE "NotImplementedError"

\* controller.py 151, 161-162: the recursion_limit perform_review passes on
PerformReviewRecursionLimit(option) ==
  IF option = 0 THEN FallbackRecursionLimit ELSE option

\* variant of PerformReviewBranch that has no positive branch
PerformReviewBranch_no_positive(type) ==
  IF type = "NEGATIVE_REVIEW" THEN "Negative review created."
  ELSE "Unknown response type from LLM."

\* controller.py 170-177: what perform_review does with the returned type
PerformReviewBranch(type) ==
  IF type = "POSITIVE_REVIEW" THEN "Positive review created."
  ELSE IF type = "NEGATIVE_REVIEW" THEN "Negative review created."
  ELSE "Unknown response type from LLM."

\* what review_pr can raise instead of returning
Raised == {"KeyError", "AssertionError", "TypeError",
           "SmartReviewGithubException", "SmartReviewLLMException"}

\* ---------------------------------------------------------------- state
VARIABLES
  pc,                  \* "prompt": review_pr entered; "llm": waiting for the reply; "done"
  prompt_template,     \* BaseLLMClient.prompt_template
  diff_text, context, project_description, relevant_files, recursion_limit,
                       \* the arguments of the current review_pr invocation
  prompt,              \* the prompt of the current round
  response,            \* the latest reply of the LLM
  outcome,             \* what review_pr returned or raised
  host,                \* the calls made on the pull request, in order
  repository_files,    \* GitHubClient.repository_files
  pr_commits,          \* GitHubClient.pr_commits
  rounds,              \* number of review_pr invocations so far
  llm_calls,           \* number of _talk_to_llm calls so far
  first,               \* the arguments of the first invocation
  previous,            \* relevant_files of the invocation before the current one
  exception_status,    \* exception_status of the SmartReviewException raised, 0 if none
  entry,               \* what the caller runs: "review_pr", "perform_review" or "main"
  openai_key,          \* the OpenAI key given, or "None"
  credentials,         \* the Google credentials given, or "None"
  given_max_recursion, \* the max recursion the caller gave, if any
  max_recursion,       \* the max recursion as passed on so far, then Options.max_recursion
  llm_type,            \* AuthenticationInformation._llm_type
  perform_review,      \* how far Controller.perform_review is
  github,              \* the GitHubClient: lazy attributes set, remote calls made
  negative_review,     \* the argument of a running create_negative_review
  pending,             \* the calls create_negative_review has still to make
  completion           \* what the API does with the request of _talk_to_llm

vars == << pc, prompt_template, diff_text, context, project_description,
           relevant_files, recursion_limit, prompt, response, outcome, host,
           repository_files, pr_commits, rounds, llm_calls, first, previous,
           exception_status, entry, openai_key, credentials,
           given_max_recursion, max_recursion, llm_type, perform_review,
           github, negative_review, pending, completion >>

gateway == << github, negative_review, pending >>

\* what no step of review_pr changes
inputs == << prompt_template, repository_files, pr_commits, first,
            entry, openai_key, credentials, given_max_recursion,
            max_recursion, llm_type, perform_review, gateway, completion >>
arguments == << diff_text, context, project_description, relevant_files, recursion_limit >>

\* the values the caller may give for the max recursion: none, or an integer
GivenMaxRecursion == { {} } \cup { {v} : v \in -1..MaxR }

Init ==
  /\ entry \in {"review_pr", "perform_review", "main"}
  /\ pc = IF entry = "review_pr" THEN "prompt"
          ELSE IF entry = "perform_review" THEN "auth" ELSE "argparse"
  /\ IF entry = "review_pr"
     THEN /\ openai_key = "sk-key"
          /\ credentials = "None"
          /\ given_max_recursion = {}
          /\ recursion_limit \in 0..MaxR
     ELSE /\ openai_key \in {"None", "sk-key"}
          /\ credentials \in {"None", "credentials.json"}
          /\ given_max_recursion \in GivenMaxRecursion
          /\ recursion_limit = 0
  /\ max_recursion = given_max_recursion
  /\ llm_type = "unset"
  /\ perform_review = "not called"
  /\ prompt_template \in Templates
  /\ \E i \in ReviewInputs :
       /\ diff_text = i[1]
       /\ context = i[2]
       /\ project_description = i[3]
  /\ relevant_files = <<>>
  /\ prompt = <<>>
  /\ response = EmptyMapping
  /\ outcome = "running"
  /\ host = <<>>
  /\ repository_files \in Listings
  /\ pr_commits = <<"c1", "c2">>
  /\ rounds = 1
  /\ llm_calls = 0
  /\ first = [diff_text |-> diff_text, context |-> context,
              project_description |-> project_description,
              recursion_limit |-> recursion_limit]
  /\ previous = <<>>
  /\ exception_status = 0
  /\ github = NewClient
  /\ negative_review = [review_message |-> "", reviews |-> <<>>]
  /\ pending = <<>>
  /\ completion = [raises |-> "none", choices |-> <<>>]

review_state == << diff_text, context, project_description, relevant_files,
                  prompt, response, host, rounds, llm_calls, previous,
                  exception_status, prompt_template, repository_files, pr_commits >>
caller_inputs == << entry, openai_key, credentials, given_max_recursion, gateway,
                   completion >>

\* construction fails: no review is started
Abort(exception) ==
  /\ pc' = "aborted"
  /\ outcome' = exception

\* app.py 15-42: main parses its arguments
ParseArgs ==
  /\ pc = "argparse"
  /\ IF ParseLLMTokens(openai_key, credentials) = "SystemExit"
     THEN /\ Abort("SystemExit")
          /\ UNCHANGED max_recursion
     ELSE /\ max_recursion' = ParseMaxRecursion(given_max_recursion)
          /\ pc' = "auth"
          /\ UNCHANGED outcome
  /\ UNCHANGED << review_state, caller_inputs, recursion_limit, first, llm_type, perform_review >>

\* controller.py 23-54, app.py 45-49: AuthenticationInformation(...)
ConstructAuthentication ==
  /\ pc = "auth"
  /\ LET r == AuthenticationPostInit(openai_key, credentials) IN
     IF r.raised # "none"
     THEN /\ Abort(r.raised)
          /\ UNCHANGED llm_type
     ELSE /\ llm_type' = r.llm_type
          /\ pc' = "options"
          /\ UNCHANGED outcome
  /\ UNCHANGED << review_state, caller_inputs, recursion_limit, first, max_recursion, perform_review >>

\* controller.py 57-109, app.py 55-66: Options(...)
ConstructOptions ==
  /\ pc = "options"
  /\ LET r == OptionsMaxRecursion(max_recursion) IN
     IF r.raised # "none"
     THEN /\ Abort(r.raised)
          /\ UNCHANGED max_recursion
     ELSE /\ max_recursion' = r.max_recursion
          /\ pc' = "controller"
          /\ UNCHANGED outcome
  /\ UNCHANGED << review_state, caller_inputs, recursion_limit, first, llm_type, perform_review >>

\* controller.py 112-140, app.py 74: the Controller is made
ConstructController ==
  /\ pc = "controller"
  /\ IF entry = "main" /\ "create_controller" \notin ControllerMethods
     THEN Abort("AttributeError")
     ELSE IF ControllerPostInit(llm_type) # "none"
     THEN Abort(ControllerPostInit(llm_type))
     ELSE /\ pc' = "perform_review"
          /\ UNCHANGED outcome
  /\ UNCHANGED << review_state, caller_inputs, recursion_limit, first, max_recursion, llm_type, perform_review >>

\* controller.py 142-169: perform_review reads its inputs and calls review_pr
PerformReview ==
  /\ pc = "perform_review"
  /\ recursion_limit' = PerformReviewRecursionLimit(Value(max_recursion))
  /\ first' = [first EXCEPT !.recursion_limit = recursion_limit']
  /\ perform_review' = "called"
  /\ pc' = "prompt"
  /\ UNCHANGED << review_state, caller_inputs, outcome, max_recursion, llm_type >>

\* controller.py 163-177: review_pr is back in perform_review
PerformReviewReturn ==
  /\ pc = "done"
  /\ perform_review = "called"
  /\ perform_review' = IF outcome \in Raised THEN "raised"
                       ELSE PerformReviewBranch(outcome)
  /\ UNCHANGED << review_state, caller_inputs, pc, outcome, recursion_limit, first,
                  max_recursion, llm_type >>

\* review_pr raises or returns: the review is over
Finish(result, calls) ==
  /\ pc' = "done"
  /\ outcome' = result
  /\ host' = host \o calls

\* base.py 151-157: render the prompt; a KeyError leaves review_pr
BuildPrompt ==
  /\ pc = "prompt"
  /\ LET r == Format(prompt_template,
                     FormatArgs(diff_text, context, project_description,
                                relevant_files, recursion_limit)) IN
     IF r.ok
     THEN /\ prompt' = r.text
          /\ pc' = "llm"
          /\ UNCHANGED << outcome, host >>
     ELSE /\ Finish("KeyError", <<>>)
          /\ UNCHANGED prompt
  /\ UNCHANGED << inputs, arguments, response, rounds, llm_calls, previous, exception_status >>

\* base.py 160-170: the reply says positive_review
PositiveReview ==
  /\ pc = "llm"
  /\ \E reply \in Replies :
       /\ Branch(reply) = "positive"
       /\ response' = reply
       /\ IF ~Asserts(reply, {"message"})
          THEN Finish("AssertionError", <<>>)
          ELSE Finish("POSITIVE_REVIEW", create_positive_review(reply["message"]))
  /\ llm_calls' = llm_calls + 1
  /\ UNCHANGED << inputs, arguments, prompt, rounds, previous, exception_status >>

\* base.py 160-163, 171-179: the reply says negative_review
NegativeReview ==
  /\ pc = "llm"
  /\ \E reply \in Replies :
       /\ Branch(reply) = "negative"
       /\ response' = reply
       /\ IF ~Asserts(reply, {"message", "reviews"})
          THEN Finish("AssertionError", <<>>)
          ELSE LET args == CreateNegativeReviewArgs(reply) IN
               IF Len(args) # Len(CreateNegativeReviewParams)
               THEN Finish("TypeError", <<>>)
               ELSE Finish("NEGATIVE_REVIEW", create_negative_review(args[1], pr_commits))
  /\ llm_calls' = llm_calls + 1
  /\ UNCHANGED << inputs, arguments, prompt, rounds, previous, exception_status >>

\* base.py 160-163, 180-200: the reply says additional_files; review_pr calls itself
AdditionalFiles ==
  /\ pc = "llm"
  /\ \E reply \in Replies :
       /\ Branch(reply) = "additional"
       /\ response' = reply
       /\ IF ~Asserts(reply, {"message", "additional_files"})
          THEN /\ Finish("AssertionError", <<>>)
               /\ UNCHANGED << arguments, rounds, previous >>
          ELSE /\ rounds < MaxRounds
               /\ relevant_files' =
                    NextRelevantFiles(relevant_files,
                      AdditionalFilesText(reply["additional_files"], repository_files))
               /\ recursion_limit' = NextRecursionLimit(recursion_limit)
               /\ rounds' = rounds + 1
               /\ previous' = relevant_files
               /\ pc' = "prompt"
               /\ UNCHANGED << diff_text, context, project_description, outcome, host >>
  /\ llm_calls' = llm_calls + 1
  /\ UNCHANGED << inputs, prompt, exception_status >>

\* base.py 160-163, 201-203: any other review_type, or none
UnexpectedReviewType ==
  /\ pc = "llm"
  /\ \E reply \in Replies :
       /\ Branch(reply) = "unexpected"
       /\ response' = reply
       /\ Finish("SmartReviewGithubException", <<>>)
  /\ llm_calls' = llm_calls + 1
  /\ exception_status' = BAD_REQUEST
  /\ UNCHANGED << inputs, arguments, prompt, rounds, previous >>

\* base.py 160, openai.py 60-83: _talk_to_llm raises SmartReviewLLMException
LLMFailure ==
  /\ pc = "llm"
  /\ \E error \in LLMErrors :
       exception_status' = LLMExceptionStatus(error)
  /\ pc' = AfterLLMException
  /\ outcome' = "SmartReviewLLMException"
  /\ llm_calls' = llm_calls + 1
  /\ UNCHANGED << inputs, arguments, prompt, response, rounds, previous, host >>

Next ==
  \/ ParseArgs
  \/ ConstructAuthentication
  \/ ConstructOptions
  \/ ConstructController
  \/ PerformReview
  \/ PerformReviewReturn
  \/ BuildPrompt
  \/ LLMFailure
  \/ PositiveReview
  \/ NegativeReview
  \/ AdditionalFiles
  \/ UnexpectedReviewType

Spec == Init /\ [][Next]_vars

\* ------------------------------------- the GitHubClient used on its own
review_pr_idle ==
  << prompt_template, diff_text, context, project_description, relevant_files,
     recursion_limit, prompt, response, repository_files, pr_commits, rounds,
     llm_calls, first, previous, exception_status, entry, openai_key,
     credentials, given_max_recursion, max_recursion, llm_type, perform_review,
     completion >>

InitGateway ==
  /\ pc = "idle"
  /\ entry = "GitHubClient"
  /\ prompt_template = EscapedTemplate
  /\ diff_text = <<>>
  /\ context = <<>>
  /\ project_description = <<>>
  /\ relevant_files = <<>>
  /\ recursion_limit = 0
  /\ prompt = <<>>
  /\ response = EmptyMapping
  /\ outcome = "running"
  /\ host = <<>>
  /\ repository_files \in Listings
  /\ pr_commits \in PrCommitLists
  /\ rounds = 0
  /\ llm_calls = 0
  /\ first = [diff_text |-> <<>>, context |-> <<>>,
              project_description |-> <<>>, recursion_limit |-> 0]
  /\ previous = <<>>
  /\ exception_status = 0
  /\ openai_key = "None"
  /\ credentials = "None"
  /\ given_max_recursion = {}
  /\ max_recursion = {}
  /\ llm_type = "unset"
  /\ perform_review = "not called"
  /\ github = NewClient
  /\ negative_review = [review_message |-> "", reviews |-> <<>>]
  /\ pending = <<>>
  /\ completion = [raises |-> "none", choices |-> <<>>]

\* github.py 57-93, 126-154, 187-191: a lazy property is read
AccessProperty ==
  /\ pc = "idle"
  /\ \E property \in Properties : github' = Access(github, property)
  /\ UNCHANGED << review_pr_idle, pc, outcome, host, negative_review, pending >>

\* github.py 95-119: diff_text is read
AccessDiffText ==
  /\ pc = "idle"
  /\ "diff_text" \notin github.cached => github.fetches["download"] < MaxDownloads
  /\ \E status \in DownloadStatuses, text \in ResponseTexts :
       github' = DiffText(github, status, text)
  /\ UNCHANGED << review_pr_idle, pc, outcome, host, negative_review, pending >>

\* github.py 220-224: create_negative_review is called
CallCreateNegativeReview ==
  /\ pc = "idle"
  /\ \E review \in NegativeReviews :
       /\ negative_review' = review
       /\ pending' = create_negative_review(review, pr_commits)
  /\ pc' = "posting"
  /\ UNCHANGED << review_pr_idle, outcome, host, github >>

\* github.py 202-218, 228: the next line comment is created
PostReviewComment ==
  /\ pc = "posting"
  /\ pending # <<>>
  /\ Head(pending).call = "create_review_comment"
  /\ github' = PrCommits(PullRequest(github))
  /\ host' = Append(host, Head(pending))
  /\ pending' = Tail(pending)
  /\ UNCHANGED << review_pr_idle, pc, outcome, negative_review >>

\* github.py 210-216, 228: create_review_comment raises; nothing catches it
PostReviewCommentFails ==
  /\ pc = "posting"
  /\ pending # <<>>
  /\ Head(pending).call = "create_review_comment"
  /\ github' = PrCommits(PullRequest(github))
  /\ pending' = <<>>
  /\ pc' = "raised"
  /\ outcome' = "GithubException"
  /\ UNCHANGED << review_pr_idle, host, negative_review >>

\* github.py 230-233: the summary review is created and returned
PostSummaryReview ==
  /\ pc = "posting"
  /\ pending # <<>>
  /\ Head(pending).call = "create_review"
  /\ github' = PullRequest(github)
  /\ host' = Append(host, Head(pending))
  /\ pending' = Tail(pending)
  /\ pc' = IF pending' = <<>> THEN "returned" ELSE "posting"
  /\ outcome' = IF pending' = <<>> THEN "PullRequestReview" ELSE outcome
  /\ UNCHANGED << review_pr_idle, negative_review >>

NextGateway ==
  \/ AccessProperty
  \/ AccessDiffText
  \/ CallCreateNegativeReview
  \/ PostReviewComment
  \/ PostReviewCommentFails
  \/ PostSummaryReview

SpecGateway == InitGateway /\ [][NextGateway]_vars

\* ---------------------------------- OpenAILLMClient._talk_to_llm on its own
talk_to_llm_idle ==
  << prompt_template, diff_text, context, project_description, relevant_files,
     recursion_limit, prompt, host, repository_files, pr_commits, rounds,
     first, previous, entry, openai_key, credentials, given_max_recursion,
     max_recursion, llm_type, perform_review, gateway, completion >>

InitLLM ==
  /\ pc = "create"
  /\ entry = "_talk_to_llm"
  /\ completion \in Completions
  /\ prompt_template = EscapedTemplate
  /\ diff_text = <<>>
  /\ context = <<>>
  /\ project_description = <<>>
  /\ relevant_files = <<>>
  /\ recursion_limit = 0
  /\ prompt = <<>>
  /\ response = EmptyMapping
  /\ outcome = "running"
  /\ host = <<>>
  /\ repository_files = EmptyMapping
  /\ pr_commits = <<"c1">>
  /\ rounds = 0
  /\ llm_calls = 0
  /\ first = [diff_text |-> <<>>, context |-> <<>>,
              project_description |-> <<>>, recursion_limit |-> 0]
  /\ previous = <<>>
  /\ exception_status = 0
  /\ openai_key = "sk-key"
  /\ credentials = "None"
  /\ given_max_recursion = {}
  /\ max_recursion = {}
  /\ llm_type = "unset"
  /\ perform_review = "not called"
  /\ github = NewClient
  /\ negative_review = [review_message |-> "", reviews |-> <<>>]
  /\ pending = <<>>

\* openai.py 60-83: an exception of the try block reaches the except clauses
RaiseInTalkToLLM(e) ==
  /\ pc' = "llm raised"
  /\ outcome' = Handle(e).raises
  /\ exception_status' = Handle(e).status
  /\ UNCHANGED response

\* openai.py 57, 59: _talk_to_llm returns
ReturnFromTalkToLLM(value) ==
  /\ pc' = "llm returned"
  /\ outcome' = "dict"
  /\ response' = value
  /\ UNCHANGED exception_status

\* openai.py 36-51: the request is sent
CreateCompletion ==
  /\ pc = "create"
  /\ llm_calls' = llm_calls + 1
  /\ IF completion.raises # "none"
     THEN RaiseInTalkToLLM(completion.raises)
     ELSE /\ pc' = "content"
          /\ UNCHANGED << outcome, exception_status, response >>
  /\ UNCHANGED talk_to_llm_idle

\* openai.py 54-59: the content of the first choice is read and parsed
ReadContent ==
  /\ pc = "content"
  /\ IF completion.choices = <<>>
     THEN RaiseInTalkToLLM("IndexError")
     ELSE LET response_jsn_string == completion.choices[1] IN
          IF Falsy(response_jsn_string)
          THEN ReturnFromTalkToLLM(EmptyMapping)
          ELSE IF json_loads(response_jsn_string).ok
               THEN ReturnFromTalkToLLM(json_loads(response_jsn_string).value)
               ELSE RaiseInTalkToLLM("JSONDecodeError")
  /\ UNCHANGED << talk_to_llm_idle, llm_calls >>

NextLLM ==
  \/ CreateCompletion
  \/ ReadContent

SpecLLM == InitLLM /\ [][NextLLM]_vars

\* ------------------------------------------------------------ properties
Range(f) == { f[i] : i \in DOMAIN f }
\* the latest _talk_to_llm call returned a reply
ReplyReceived == llm_calls > 0 /\ outcome # "SmartReviewLLMException"

\* C1: once the LLM has replied positive_review with a message m, the review
\* is over with POSITIVE_REVIEW, and the only call made on the pull request is
\* one APPROVE review whose body carries m: no REQUEST_CHANGES review and no
\* line comment.
C1_PositiveReviewAccepted ==
  (ReplyReceived /\ Get(response, "review_type") = POSITIVE_REVIEW
     /\ "message" \in DOMAIN response)
  => /\ pc = "done"
     /\ outcome = "POSITIVE_REVIEW"
     /\ Len(host) = 1
     /\ host[1].call = "create_review"
     /\ host[1].event = "APPROVE"
     /\ host[1].body = <<SmartReviewHeader, response["message"]>>

C1_Witness ==
  /\ pc = "done"
  /\ outcome = "POSITIVE_REVIEW"
  /\ response = [review_type |-> POSITIVE_REVIEW, message |-> "LGTM"]
  /\ first.diff_text = <<"+1 line added">>
  /\ Len(host) = 1

\* the line comments a list of file reviews asks for, in document order
ExpectedComment(reviews, f, c) ==
  [call |-> "create_review_comment",
   body |-> <<SmartReviewHeader, reviews[f].comments[c].message>>,
   path |-> reviews[f].file, line |-> reviews[f].comments[c].line,
   commit |-> pr_commits[Len(pr_commits)], as_suggestion |-> FALSE]
CommentSlots(reviews) ==
  UNION { { <<f, c>> : c \in DOMAIN reviews[f].comments } : f \in DOMAIN reviews }
CommentCount(reviews) == Cardinality(CommentSlots(reviews))
SlotsBefore(reviews, f, c) ==
  Cardinality({ fc \in CommentSlots(reviews) :
                  fc[1] < f \/ (fc[1] = f /\ fc[2] < c) })
ValidNegativeReply(reply) ==
  /\ Get(reply, "review_type") = NEGATIVE_REVIEW
  /\ "message" \in DOMAIN reply
  /\ "reviews" \in DOMAIN reply
  /\ reply["reviews"] # <<>>
  /\ \A f \in DOMAIN reply["reviews"] : reply["reviews"][f].comments # <<>>

\* C2: once the LLM has sent a valid negative_review reply, the review is over
\* with NEGATIVE_REVIEW, and the calls on the pull request are the M1+...+MN
\* line comments in document order followed by one REQUEST_CHANGES review.
C2_NegativeReviewPosted ==
  (ReplyReceived /\ ValidNegativeReply(response))
  => LET reviews == response["reviews"]
         n == CommentCount(reviews) IN
     /\ pc = "done"
     /\ outcome = "NEGATIVE_REVIEW"
     /\ Len(host) = n + 1
     /\ \A f \in DOMAIN reviews : \A c \in DOMAIN reviews[f].comments :
          host[SlotsBefore(reviews, f, c) + 1] = ExpectedComment(reviews, f, c)
     /\ host[n + 1].call = "create_review"
     /\ host[n + 1].event = "REQUEST_CHANGES"
     /\ host[n + 1].body = <<SmartReviewHeader, response["message"]>>

\* the positions of a request that name a listed file for the first time
Kept(request, listing) ==
  { i \in DOMAIN request :
      /\ request[i] \in DOMAIN listing
      /\ \A j \in 1..(i - 1) : request[j] # request[i] }
KthKept(request, listing, k) ==
  CHOOSE i \in Kept(request, listing) :
    Cardinality({ j \in Kept(request, listing) : j < i }) = k - 1
\* text is one "path, newline, content" block per kept position, newline-joined
IsJoinedBlocks(text, request, listing) ==
  LET n == Cardinality(Kept(request, listing)) IN
  /\ Len(text) = IF n = 0 THEN 0 ELSE 4 * n - 1
  /\ \A k \in 1..n :
       LET path == request[KthKept(request, listing, k)] IN
       /\ text[4 * k - 3] = path
       /\ text[4 * k - 2] = NL
       /\ text[4 * k - 1] = listing[path].content
       /\ k < n => text[4 * k] = NL
WellFormedAdditionalFiles(reply) ==
  /\ Get(reply, "review_type") = ADDITIONAL_FILES
  /\ "message" \in DOMAIN reply
  /\ "additional_files" \in DOMAIN reply

\* C3: once the LLM has replied additional_files, the next round is entered
\* (the review is not over, whatever paths were asked for) and its
\* relevant_files is one path+content block per requested path found in the
\* repository listing, in request order, joined by newlines.
C3_RelevantFilesFromRequest ==
  (ReplyReceived /\ WellFormedAdditionalFiles(response))
  => /\ pc \in {"prompt", "llm"}
     /\ rounds = llm_calls + 1
     /\ IsJoinedBlocks(relevant_files, response["additional_files"], repository_files)

C3_Witness ==
  /\ pc = "llm"
  /\ Get(response, "review_type") = ADDITIONAL_FILES
  /\ Get(response, "additional_files") = <<"missing.py", "a.py">>
  /\ DOMAIN repository_files = RepoPaths
  /\ relevant_files = <<"a.py", NL, "print(1)">>

C3_WitnessNoneFound ==
  /\ pc = "llm"
  /\ Get(response, "review_type") = ADDITIONAL_FILES
  /\ Get(response, "additional_files") = <<"missing.py">>
  /\ relevant_files = <<>>
  /\ rounds = 2

\* C4: the recursion_limit of every round is at least 0.
C4_RecursionLimitNonNegative == recursion_limit >= 0

\* C5: a review started with recursion_limit R has at most R + 1 rounds.
C5_RoundsBounded == rounds <= first.recursion_limit + 1

\* C6: the round after k additional_files replies runs with R - k, and a
\* terminal reply leaves the value as it is.
C6_BudgetDecrementsByOne ==
  /\ recursion_limit = first.recursion_limit - (rounds - 1)
  /\ (pc = "done" /\ outcome # "KeyError" /\ Branch(response) # "additional")
       => llm_calls = rounds
  /\ (pc # "done") => llm_calls = rounds - 1

C6_Witness ==
  /\ pc = "done"
  /\ outcome = "POSITIVE_REVIEW"
  /\ rounds = 2
  /\ llm_calls = 2
  /\ first.recursion_limit = 2
  /\ recursion_limit = 1

RequiredFields(reply) ==
  IF Get(reply, "review_type") = POSITIVE_REVIEW THEN {"message"}
  ELSE IF Get(reply, "review_type") = NEGATIVE_REVIEW THEN {"message", "reviews"}
  ELSE IF Get(reply, "review_type") = ADDITIONAL_FILES THEN {"message", "additional_files"}
  ELSE {}

\* C7: once the LLM has sent a reply of a recognized review_type that lacks a
\* field required for that type, the review is over with the assertion
\* failure of the dispatch and no call was made on the pull request.
C7_MalformedReplyFails ==
  (ReplyReceived /\ ~(RequiredFields(response) \subseteq DOMAIN response))
  => /\ pc = "done"
     /\ outcome = "AssertionError"
     /\ host = <<>>

C7_Witness ==
  /\ pc = "done"
  /\ outcome = "AssertionError"
  /\ response = [review_type |-> ADDITIONAL_FILES, additional_files |-> <<"a.py">>]
  /\ rounds = 2

\* C8: once the LLM has sent a reply whose review_type is absent or not one of
\* the three, the review is over with the "Unexpected review type" exception
\* and no call was made on the pull request.
C8_UnexpectedTypeFails ==
  (ReplyReceived
     /\ Get(response, "review_type") \notin {POSITIVE_REVIEW, NEGATIVE_REVIEW, ADDITIONAL_FILES})
  => /\ pc = "done"
     /\ outcome = "SmartReviewGithubException"
     /\ host = <<>>

C8_Witness ==
  /\ pc = "done"
  /\ outcome = "SmartReviewGithubException"
  /\ response = EmptyMapping
  /\ llm_calls = 1

\* C9: rendering the prompt never fails, so a review never ends in the
\* KeyError of str.format and every round gets to the LLM call.
C9_PromptBuildingSucceeds ==
  /\ outcome # "KeyError"
  /\ (pc = "done") => llm_calls = rounds

PathsIn(text) == Range(text) \cap RequestPaths

\* C10: in every round diff_text, context and project_description are those
\* of the first round, and after an additional_files reply relevant_files
\* names only paths of that latest request, whatever the previous round had.
C10_RelevantFilesReplaced ==
  /\ diff_text = first.diff_text
  /\ context = first.context
  /\ project_description = first.project_description
  /\ (ReplyReceived /\ WellFormedAdditionalFiles(response))
       => PathsIn(relevant_files) \subseteq Range(response["additional_files"])

C10_Witness ==
  /\ pc = "llm"
  /\ rounds = 3
  /\ previous = <<"a.py", NL, "print(1)">>
  /\ Get(response, "additional_files") = <<"b.py">>
  /\ relevant_files = <<"b.py", NL, "x = 2">>
  /\ diff_text = <<"+1 line added">>

\* C11: once the LLM has replied additional_files with an empty list of paths,
\* the review is over with the failure of a malformed reply: no further round
\* is entered and recursion_limit is the one of the round of that reply.
C11_EmptyRequestMalformed ==
  (ReplyReceived /\ WellFormedAdditionalFiles(response)
     /\ response["additional_files"] = <<>>)
  => /\ pc = "done"
     /\ outcome = "AssertionError"
     /\ rounds = llm_calls
     /\ recursion_limit = first.recursion_limit - (llm_calls - 1)

EmptyNegativeReply(reply) ==
  /\ Get(reply, "review_type") = NEGATIVE_REVIEW
  /\ "message" \in DOMAIN reply
  /\ "reviews" \in DOMAIN reply
  /\ \/ reply["reviews"] = <<>>
     \/ \E f \in DOMAIN reply["reviews"] : reply["reviews"][f].comments = <<>>

\* C12: once the LLM has sent a negative_review whose reviews list is empty or
\* holds a file review without comments, the review is over with the failure
\* of a malformed reply and no call was made on the pull request.
C12_EmptyNegativeRejected ==
  (ReplyReceived /\ EmptyNegativeReply(response))
  => /\ pc = "done"
     /\ outcome = "AssertionError"
     /\ host = <<>>

\* C13: when _talk_to_llm has failed, the review is over with that exception:
\* the failing call is the last call to the LLM (one call per round, none
\* repeated) and no call was made on the pull request.
C13_FailedRoundEndsReview ==
  (outcome = "SmartReviewLLMException")
  => /\ pc = "done"
     /\ llm_calls = rounds
     /\ host = <<>>
     /\ exception_status \in {REQUEST_TIMEOUT, INTERNAL_SERVER_ERROR}

C13_Witness ==
  /\ pc = "done"
  /\ outcome = "SmartReviewLLMException"
  /\ rounds = 2
  /\ llm_calls = 2
  /\ Get(response, "review_type") = ADDITIONAL_FILES

\* C14: the first round of a review run by perform_review has
\* recursion_limit = Options.max_recursion, for every allowed value.
C14_FirstRoundUsesCeiling ==
  (perform_review # "not called")
  => first.recursion_limit = Value(max_recursion)

ReviewsCreated == { i \in DOMAIN host : host[i].call = "create_review" }

\* C15: a review has no result while it runs and one when it is over: a
\* returned POSITIVE_REVIEW with exactly one review on the host, an APPROVE, or
\* a returned NEGATIVE_REVIEW with exactly one review, a REQUEST_CHANGES, or
\* an exception with no review; perform_review never gets to its
\* "Unknown response type" branch.
C15_OneTerminalResult ==
  /\ (pc \notin {"done", "aborted"}) <=> (outcome = "running")
  /\ (pc = "done") =>
       \/ /\ outcome = "POSITIVE_REVIEW"
          /\ Cardinality(ReviewsCreated) = 1
          /\ \A i \in ReviewsCreated : host[i].event = "APPROVE"
       \/ /\ outcome = "NEGATIVE_REVIEW"
          /\ Cardinality(ReviewsCreated) = 1
          /\ \A i \in ReviewsCreated : host[i].event = "REQUEST_CHANGES"
       \/ /\ outcome \in Raised
          /\ ReviewsCreated = {}
  /\ perform_review \in {"not called", "called", "raised",
                         "Positive review created.", "Negative review created."}
  /\ (perform_review = "Positive review created.") => outcome = "POSITIVE_REVIEW"

C15_Witness ==
  /\ pc = "done"
  /\ entry = "perform_review"
  /\ perform_review = "Positive review created."
  /\ outcome = "POSITIVE_REVIEW"
  /\ rounds = 2
  /\ Len(host) = 1

AuthenticationConstructed ==
  /\ entry # "review_pr"
  /\ pc \notin {"argparse", "auth"}
  /\ outcome # "SystemExit"

\* C16: AuthenticationInformation given neither or both of the OpenAI key and
\* the Google credentials fails with SmartReviewSystemException and nothing
\* after it runs; given exactly one it is constructed, with llm_type OPENAI
\* when the key is given and GOOGLE otherwise.
C16_CredentialsExclusive ==
  AuthenticationConstructed
  => IF (openai_key = "None") = (credentials = "None")
     THEN /\ pc = "aborted"
          /\ outcome = "SmartReviewSystemException"
          /\ llm_type = "unset"
     ELSE /\ outcome # "SmartReviewSystemException"
          /\ llm_type = IF openai_key # "None" THEN "OPENAI" ELSE "GOOGLE"

C16_Witness ==
  /\ entry = "perform_review"
  /\ pc = "aborted"
  /\ outcome = "SmartReviewSystemException"
  /\ openai_key # "None"
  /\ credentials # "None"

C16_WitnessGoogle ==
  /\ entry = "perform_review"
  /\ pc = "options"
  /\ llm_type = "GOOGLE"
  /\ openai_key = "None"

OptionsConstructed ==
  /\ llm_type # "unset"
  /\ pc \notin {"argparse", "auth", "options"}

\* C17: once Options is constructed, max_recursion is 5 when the caller gave
\* none, through the CLI or through Options, and a negative value has ended
\* the run before any round.
C17_DefaultFiveNegativeRejected ==
  OptionsConstructed
  => /\ (given_max_recursion = {}) => max_recursion = {5}
     /\ (\E v \in given_max_recursion : v < 0)
          => (pc = "aborted" /\ outcome = "ValueError" /\ llm_calls = 0)

\* C18: the prompt sent in a round is the template's text around the diff
\* text, the PR context and the project description of the first round, the
\* relevant_files of this round and, after "RECURSIONS REMAINING: ", the
\* value R - k of round k (k = 0 for the first round).
C18_PromptEmbedsRound ==
  (pc = "llm")
  => prompt =
       <<"Review the following pull request diffs and provide feedback.">>
         \o first.diff_text
         \o <<"# Context:">> \o first.context
         \o <<"- Project Description: ">> \o first.project_description
         \o <<"- Relevant Files: ">> \o relevant_files
         \o <<"# Response Format {...}", "RECURSIONS REMAINING: ",
              ToString(first.recursion_limit - (rounds - 1))>>

C18_Witness ==
  /\ pc = "llm"
  /\ rounds = 2
  /\ first.recursion_limit = 2
  /\ recursion_limit = 1
  /\ prompt[Len(prompt)] = "1"
  /\ relevant_files = <<"a.py", NL, "print(1)">>
  /\ first.diff_text = <<"+1 line added">>

\* C19: whatever properties of one GitHubClient are read, how often and in
\* what order, get_repo, get_pull, get_files, get_contents and get_commits are
\* each called at most once, and the diff is downloaded at most once apart
\* from downloads that failed.
C19_FetchedAtMostOnce ==
  /\ \A c \in {"get_repo", "get_pull", "get_files", "get_contents", "get_commits"} :
       github.fetches[c] <= 1
  /\ github.fetches["download"] - github.failed_downloads <= 1

\* the calls create_negative_review is to make for its argument
ExpectedCalls ==
  [ i \in 1..(CommentCount(negative_review.reviews) + 1) |->
      IF i = CommentCount(negative_review.reviews) + 1
      THEN [call |-> "create_review",
            body |-> <<SmartReviewHeader, negative_review.review_message>>,
            event |-> "REQUEST_CHANGES"]
      ELSE LET fc == CHOOSE fc \in CommentSlots(negative_review.reviews) :
                       SlotsBefore(negative_review.reviews, fc[1], fc[2]) = i - 1
           IN ExpectedComment(negative_review.reviews, fc[1], fc[2]) ]

\* C20: in create_negative_review no line comment is created after the
\* summary review; the summary is the last call, made once all the line
\* comments are there; when a line comment fails the call ends with that
\* exception, without a summary, and the comments created before it stay.
C20_SummaryAfterComments ==
  /\ \A i, j \in DOMAIN host :
       (i < j /\ host[i].call = "create_review") => host[j].call # "create_review_comment"
  /\ (pc \in {"posting", "returned", "raised"}) =>
       /\ Len(host) <= Len(ExpectedCalls)
       /\ \A i \in DOMAIN host : host[i] = ExpectedCalls[i]
  /\ (pc = "returned") => (host = ExpectedCalls /\ outcome = "PullRequestReview")
  /\ (pc = "raised") =>
       /\ outcome = "GithubException"
       /\ \A i \in DOMAIN host : host[i].call = "create_review_comment"
       /\ Len(host) < CommentCount(negative_review.reviews)

C20_Witness ==
  /\ pc = "raised"
  /\ Len(host) = 2
  /\ CommentCount(negative_review.reviews) = 3
  /\ host[2].path = "a.py"

C20_WitnessReturned ==
  /\ pc = "returned"
  /\ Len(host) = 4
  /\ host[3].path = "b.py"
  /\ host[4].event = "REQUEST_CHANGES"

\* a step in which diff_text was read
DiffTextRead ==
  \/ github'.read # github.read
  \/ github'.fetches["download"] # github.fetches["download"]

\* C21: every read of diff_text made while no diff is cached downloads it; a
\* status other than 200 raises SmartReviewGithubException and leaves the
\* diff uncached, so that the next read downloads again; with 200 the text of
\* the response is returned and cached, and later reads return that value
\* without a download.
C21_DiffFetchFailsCleanly ==
  [][ DiffTextRead =>
        IF "diff_text" \in github.cached
        THEN /\ github'.read.result = "str"
             /\ github'.read.value = github.diff
             /\ github'.diff = github.diff
             /\ github'.fetches["download"] = github.fetches["download"]
        ELSE /\ github'.fetches["download"] = github.fetches["download"] + 1
             /\ IF github'.read.status = HTTP_OK
                THEN /\ github'.read.result = "str"
                     /\ github'.read.value = github'.read.text
                     /\ "diff_text" \in github'.cached
                     /\ github'.diff = github'.read.text
                ELSE /\ github'.read.result = "SmartReviewGithubException"
                     /\ "diff_text" \notin github'.cached ]_vars

C21_Witness ==
  /\ github.failed_downloads = 1
  /\ github.fetches["download"] = 2
  /\ "diff_text" \in github.cached
  /\ github.diff = <<"diff --git a/a.py b/a.py">>
  /\ github.read.status = 0
  /\ github.read.value = github.diff

TimedOut == completion.raises = "APITimeoutError"

\* the request failed, no choice came back, or the content is not a JSON text
FailedCompletion ==
  \/ completion.raises # "none"
  \/ completion.choices = <<>>
  \/ /\ ~Falsy(completion.choices[1])
     /\ ~completion.choices[1].closed

\* C23: _talk_to_llm ends in one of two ways. It returns a mapping, the empty
\* one when the content is None or empty, and it does so exactly when nothing
\* failed; or it raises SmartReviewLLMException, with status 408 after a
\* timeout and status 500 after any other failure. Nothing else leaves it.
C23_TalkToLLMOutcomes ==
  /\ (pc \in {"create", "content"}) => outcome = "running"
  /\ outcome \in {"running", "dict", "SmartReviewLLMException"}
  /\ (pc = "llm returned") =>
       /\ ~FailedCompletion
       /\ outcome = "dict"
       /\ DOMAIN response \subseteq {"review_type", "message", "reviews", "additional_files"}
       /\ Falsy(completion.choices[1]) => response = EmptyMapping
       /\ ~Falsy(completion.choices[1]) => response = completion.choices[1].members
       /\ exception_status = 0
  /\ (pc = "llm raised") =>
       /\ FailedCompletion
       /\ outcome = "SmartReviewLLMException"
       /\ exception_status = IF TimedOut THEN 408 ELSE 500

C23_Witness ==
  /\ pc = "llm raised"
  /\ TimedOut
  /\ outcome = "SmartReviewLLMException"
  /\ exception_status = 408

C23_WitnessInvalidJSON ==
  /\ pc = "llm raised"
  /\ completion.raises = "none"
  /\ completion.choices # <<>>
  /\ exception_status = 500

C23_WitnessEmptyContent ==
  /\ pc = "llm returned"
  /\ completion.choices = <<NoneContent>>
  /\ response = EmptyMapping

====
